---- MODULE Spec2Model ----
(***************************************************************************)
(* The SPI1 master driver of src/src/spi.rs as a state machine: the        *)
(* constructor spi1 (one step per hardware effect, in source order), the   *)
(* mutators data_size / half_duplex_enable / half_duplex_output_enable,    *)
(* the non-blocking transfers read / send, release, and the peripheral's   *)
(* status flags as they change under the driver.                           *)
(***************************************************************************)
EXTENDS Integers, Sequences, FiniteSets, TLC

VARIABLES
    pc,        \* position of the program: the constructor's step, "ready", "released", "panicked"
    apb_clk,   \* rcc.clocks.apb_clk, Hz (constructor input)
    speed,     \* requested bit rate, Hz (constructor input)
    mode,      \* hal::spi::Mode given to the constructor
    pins,      \* the (SCK, MISO, MOSI) tuple given to the constructor
    pinmode,   \* electrical mode of every physical pin: "analog" or the alternate function routed
    rcc,       \* clock gate of SPI1 and whether this construction pulsed its reset
    cr1,       \* SPI control register 1, by field
    cr2,       \* SPI control register 2, by field
    sr,        \* SPI status register, by flag
    br,        \* the constructor's local `br` (-1 before the match)
    log,       \* hardware effects the constructor has performed, in order
    out,       \* the driver call that has just returned: its result and its data-register access
    stuck,     \* the error the latest transfer returned, while the flag behind it has stayed
               \* set, and whether a transfer had returned that error already
    returned   \* what release() handed back

vars == <<pc, apb_clk, speed, mode, pins, pinmode, rcc, cr1, cr2, sr, br, log, out, stuck, returned>>

(***************************************************************************)
(* Bounds of the model.                                                    *)
(***************************************************************************)
MaxClk == 200      \* bus clocks 1..MaxClk Hz in the prescaler sweep
MaxSpeed == 3      \* requested rates 1..MaxSpeed Hz in the prescaler sweep
MaxNrBits == 17    \* data_size is called with nr_bits in 0..MaxNrBits

(***************************************************************************)
(* Pins: the capability table of the spi! invocation and the fillers.      *)
(***************************************************************************)
NoSck == "NoSck"
NoMiso == "NoMiso"
NoMosi == "NoMosi"

SckTable ==
    << [pin |-> "PA1", af |-> "AF0"], [pin |-> "PA5", af |-> "AF0"],
       [pin |-> "PB3", af |-> "AF0"], [pin |-> "PB6", af |-> "AF10"] >>

MisoTable ==
    << [pin |-> "PA6", af |-> "AF0"], [pin |-> "PA11", af |-> "AF0"],
       [pin |-> "PB4", af |-> "AF0"], [pin |-> "PB6", af |-> "AF9"] >>

MosiTable ==
    << [pin |-> "PA2", af |-> "AF0"], [pin |-> "PA7", af |-> "AF0"],
       [pin |-> "PA12", af |-> "AF0"], [pin |-> "PB5", af |-> "AF0"],
       [pin |-> "PB6", af |-> "AF8"] >>

PinsOf(table) == { table[i].pin : i \in DOMAIN table }

AfOf(table, p) == table[CHOOSE i \in DOMAIN table : table[i].pin = p].af

PhysPins == PinsOf(SckTable) \cup PinsOf(MisoTable) \cup PinsOf(MosiTable)

Fillers == {NoSck, NoMiso, NoMosi}

\* Every tuple the trait bounds PinSck / PinMiso / PinMosi accept; a pin is one
\* owned value, so it cannot be passed for two roles.
PinTuples ==
    { t \in [sck : PinsOf(SckTable) \cup {NoSck},
             miso : PinsOf(MisoTable) \cup {NoMiso},
             mosi : PinsOf(MosiTable) \cup {NoMosi}] :
        /\ t.sck # t.miso
        /\ t.sck # t.mosi
        /\ t.miso # t.mosi }

ExamplePins == [sck |-> "PA5", miso |-> "PA6", mosi |-> "PA7"]

AllAnalog == [p \in PhysPins |-> "analog"]

\* PinSck::setup: set_alt_mode($SCK_AF) on a pin, nothing on the filler.
SckSetup(pm, p) == IF p = NoSck THEN pm ELSE [pm EXCEPT ![p] = AfOf(SckTable, p)]

\* PinMiso::setup
MisoSetup(pm, p) == IF p = NoMiso THEN pm ELSE [pm EXCEPT ![p] = AfOf(MisoTable, p)]

\* PinMosi::setup
MosiSetup(pm, p) == IF p = NoMosi THEN pm ELSE [pm EXCEPT ![p] = AfOf(MosiTable, p)]

\* release that leaves the pin routed.
PinRelease_Keep(pm, p) == pm

\* PinSck / PinMiso / PinMosi ::release: into_analog() on a pin, `self` on a filler.
PinRelease(pm, p) == IF p \in Fillers THEN pm ELSE [pm EXCEPT ![p] = "analog"]

(***************************************************************************)
(* Modes and registers.                                                    *)
(***************************************************************************)
Modes ==
    [polarity : {"IdleLow", "IdleHigh"},
     phase : {"CaptureOnFirstTransition", "CaptureOnSecondTransition"}]

MODE_0 == [polarity |-> "IdleLow", phase |-> "CaptureOnFirstTransition"]
MODE_3 == [polarity |-> "IdleHigh", phase |-> "CaptureOnSecondTransition"]

Bit(b) == IF b THEN 1 ELSE 0

\* Register contents after a peripheral reset.
Cr1Reset ==
    [cpha |-> 0, cpol |-> 0, mstr |-> 0, br |-> 0, spe |-> 0, lsbfirst |-> 0,
     ssi |-> 0, ssm |-> 0, rxonly |-> 0, bidioe |-> 0, bidimode |-> 0]

Cr2Reset == [ds |-> 7, ssoe |-> 0, frxth |-> 0]

SrReset == [ovr |-> 0, modf |-> 0, crcerr |-> 0, rxne |-> 0, txe |-> 1]

Flags == {"ovr", "modf", "crcerr", "rxne", "txe"}

\* The match with the sixth arm starting one ratio late.
BrOf_LateBoundary(r) ==
    IF r \in 1..2 THEN 0
    ELSE IF r \in 3..5 THEN 1
    ELSE IF r \in 6..11 THEN 2
    ELSE IF r \in 12..23 THEN 3
    ELSE IF r \in 24..48 THEN 4
    ELSE IF r \in 49..95 THEN 5
    ELSE IF r \in 96..191 THEN 6
    ELSE 7

\* The match on apb_clk / speed; arm 0 is unreachable!() and handled by the caller.
BrOf(r) ==
    IF r \in 1..2 THEN 0
    ELSE IF r \in 3..5 THEN 1
    ELSE IF r \in 6..11 THEN 2
    ELSE IF r \in 12..23 THEN 3
    ELSE IF r \in 24..47 THEN 4
    ELSE IF r \in 48..95 THEN 5
    ELSE IF r \in 96..191 THEN 6
    ELSE 7

\* cr1().write(..): the reset value with the fields the closure sets.
Cr1Value(m, b) ==
    [Cr1Reset EXCEPT
        !.cpha = Bit(m.phase = "CaptureOnSecondTransition"),
        !.cpol = Bit(m.polarity = "IdleHigh"),
        !.mstr = 1,
        !.br = b,
        !.lsbfirst = 0,
        !.ssm = 1,
        !.ssi = 1,
        !.rxonly = 0,
        !.bidimode = 0,
        !.spe = 1]

\* The first cr2().write(..): the reset value with SSOE cleared.
Cr2SsoeValue == [Cr2Reset EXCEPT !.ssoe = 0]

\* The second cr2().write(..): FRXTH set, DS = 0b111, SSOE cleared.
Cr2FrameValue == [Cr2Reset EXCEPT !.frxth = 1, !.ds = 7, !.ssoe = 0]

(***************************************************************************)
(* Records of calls.                                                       *)
(***************************************************************************)
NoAccess == [kind |-> "none", width |-> "none", bits |-> -1]

Idle == [op |-> "none", arg |-> -1, res |-> "none", val |-> "none", acc |-> NoAccess]

NothingReturned == [spi |-> "none", sck |-> "none", miso |-> "none", mosi |-> "none"]

Errors == {"Overrun", "ModeFault", "Crc"}

NotStuck == [err |-> "none", again |-> FALSE]

(***************************************************************************)
(* Initial states: the constructor's arguments in hand, SPI1 either never  *)
(* used or left behind by an earlier driver (release() gates nothing).     *)
(***************************************************************************)
LeftCr1 == [Cr1Value(MODE_3, 7) EXCEPT !.bidimode = 1, !.bidioe = 1]

LeftCr2 == [ds |-> 15, ssoe |-> 0, frxth |-> 1]

LeftSr == [ovr |-> 1, modf |-> 0, crcerr |-> 0, rxne |-> 1, txe |-> 0]

InitWith(clocks, modes, tuples) ==
    /\ pc = "start"
    /\ \E c \in clocks : apb_clk = c[1] /\ speed = c[2]
    /\ mode \in modes
    /\ pins \in tuples
    /\ pinmode = AllAnalog
    /\ \E used \in BOOLEAN :
          /\ rcc = [en |-> used, rst |-> FALSE]
          /\ cr1 = IF used THEN LeftCr1 ELSE Cr1Reset
          /\ cr2 = IF used THEN LeftCr2 ELSE Cr2Reset
          /\ sr = IF used THEN LeftSr ELSE SrReset
    /\ br = -1
    /\ log = << >>
    /\ out = Idle
    /\ stuck = NotStuck
    /\ returned = NothingReturned

\* Clock configurations of the prescaler sweep, and the 48 MHz / 1 MHz example.
SweepClocks == ((1..MaxClk) \X (1..MaxSpeed)) \cup { <<48000000, 1000000>> }

\* Clock configurations of construction and release: ratios 48, 1 and 0.
LifeClocks == { <<48000000, 1000000>>, <<16000000, 16000000>>, <<1000000, 48000000>> }

\* Clock configurations of a driver in use: ratios 48 and 0.
MainClocks == { <<48000000, 1000000>>, <<1000000, 48000000>> }

(***************************************************************************)
(* The constructor spi1, one action per hardware effect.                   *)
(***************************************************************************)
\* $SPIX::enable(rcc)
spi1_enable ==
    /\ pc = "start"
    /\ rcc' = [rcc EXCEPT !.en = TRUE]
    /\ log' = Append(log, "rcc.enable")
    /\ pc' = "enabled"
    /\ UNCHANGED <<apb_clk, speed, mode, pins, pinmode, cr1, cr2, sr, br, out, stuck, returned>>

\* $SPIX::reset(rcc)
spi1_reset ==
    /\ pc = "enabled"
    /\ rcc' = [rcc EXCEPT !.rst = TRUE]
    /\ cr1' = Cr1Reset
    /\ cr2' = Cr2Reset
    /\ sr' = SrReset
    /\ log' = Append(log, "rcc.reset")
    /\ pc' = "reset"
    /\ UNCHANGED <<apb_clk, speed, mode, pins, pinmode, br, out, stuck, returned>>

\* spi.cr2().write(|w| w.ssoe().clear_bit())
spi1_cr2_ssoe ==
    /\ pc = "reset"
    /\ cr2' = Cr2SsoeValue
    /\ log' = Append(log, "cr2.write")
    /\ pc' = "cr2_ssoe"
    /\ UNCHANGED <<apb_clk, speed, mode, pins, pinmode, rcc, cr1, sr, br, out, stuck, returned>>

\* The match with ratio 0 clamped to the fastest prescaler.
spi1_br_clamp ==
    /\ pc = "cr2_ssoe"
    /\ pc' = "br"
    /\ br' = IF apb_clk \div speed = 0 THEN 0 ELSE BrOf(apb_clk \div speed)
    /\ UNCHANGED <<apb_clk, speed, mode, pins, pinmode, rcc, cr1, cr2, sr, log, out, stuck, returned>>

\* let br = match rcc.clocks.apb_clk / speed { 0 => unreachable!(), .. }
spi1_br ==
    /\ pc = "cr2_ssoe"
    /\ IF apb_clk \div speed = 0
          THEN pc' = "panicked" /\ br' = br
          ELSE pc' = "br" /\ br' = BrOf(apb_clk \div speed)
    /\ UNCHANGED <<apb_clk, speed, mode, pins, pinmode, rcc, cr1, cr2, sr, log, out, stuck, returned>>

\* The CR1 write moved ahead of pins.setup().
spi1_cr2_frame_then_cr1 ==
    /\ pc = "br"
    /\ cr2' = Cr2FrameValue
    /\ cr1' = Cr1Value(mode, br)
    /\ log' = log \o <<"cr2.write", "cr1.write">>
    /\ pc' = "cr2_frame"
    /\ UNCHANGED <<apb_clk, speed, mode, pins, pinmode, rcc, sr, br, out, stuck, returned>>

\* spi.cr2().write(|w| w.frxth().set_bit().ds().bits(0b111).ssoe().clear_bit())
spi1_cr2_frame ==
    /\ pc = "br"
    /\ cr2' = Cr2FrameValue
    /\ log' = Append(log, "cr2.write")
    /\ pc' = "cr2_frame"
    /\ UNCHANGED <<apb_clk, speed, mode, pins, pinmode, rcc, cr1, sr, br, out, stuck, returned>>

\* pins.setup(): self.0.setup()
spi1_setup_sck ==
    /\ pc = "cr2_frame"
    /\ pinmode' = SckSetup(pinmode, pins.sck)
    /\ log' = IF pins.sck = NoSck THEN log ELSE Append(log, "sck.setup")
    /\ pc' = "sck"
    /\ UNCHANGED <<apb_clk, speed, mode, pins, rcc, cr1, cr2, sr, br, out, stuck, returned>>

\* pins.setup(): self.1.setup()
spi1_setup_miso ==
    /\ pc = "sck"
    /\ pinmode' = MisoSetup(pinmode, pins.miso)
    /\ log' = IF pins.miso = NoMiso THEN log ELSE Append(log, "miso.setup")
    /\ pc' = "miso"
    /\ UNCHANGED <<apb_clk, speed, mode, pins, rcc, cr1, cr2, sr, br, out, stuck, returned>>

\* pins.setup(): self.2.setup()
spi1_setup_mosi ==
    /\ pc = "miso"
    /\ pinmode' = MosiSetup(pinmode, pins.mosi)
    /\ log' = IF pins.mosi = NoMosi THEN log ELSE Append(log, "mosi.setup")
    /\ pc' = "mosi"
    /\ UNCHANGED <<apb_clk, speed, mode, pins, rcc, cr1, cr2, sr, br, out, stuck, returned>>

\* spi.cr1().write(..); Spi { spi, pins }
spi1_cr1 ==
    /\ pc = "mosi"
    /\ cr1' = Cr1Value(mode, br)
    /\ log' = Append(log, "cr1.write")
    /\ pc' = "ready"
    /\ UNCHANGED <<apb_clk, speed, mode, pins, pinmode, rcc, cr2, sr, br, out, stuck, returned>>

spi1 ==
    \/ spi1_enable
    \/ spi1_reset
    \/ spi1_cr2_ssoe
    \/ spi1_br
    \/ spi1_cr2_frame
    \/ spi1_setup_sck
    \/ spi1_setup_miso
    \/ spi1_setup_mosi
    \/ spi1_cr1

(***************************************************************************)
(* The prescaler sweep: the constructor over many clock configurations.    *)
(***************************************************************************)
InitSel == InitWith(SweepClocks, {MODE_0}, {ExamplePins})

SpecSel == InitSel /\ [][spi1]_vars

(***************************************************************************)
(* The mutators of a constructed driver.                                   *)
(***************************************************************************)
Called(op, arg) == [Idle EXCEPT !.op = op, !.arg = arg, !.res = "unit"]

\* ds().bits(v): the field is four bits wide.
DsBits(v) == v % 16

\* data_size: cr2().modify(|_, w| w.ds().bits(nr_bits-1)).  nr_bits is a u8, so
\* nr_bits-1 at 0 panics where overflow is checked and wraps to 255 where it is not.
data_size ==
    /\ pc = "ready"
    /\ \E nr_bits \in 0..MaxNrBits :
          \/ /\ nr_bits >= 1
             /\ cr2' = [cr2 EXCEPT !.ds = DsBits(nr_bits - 1)]
             /\ out' = Called("data_size", nr_bits)
             /\ pc' = pc
          \/ /\ nr_bits = 0
             /\ cr2' = [cr2 EXCEPT !.ds = DsBits(255)]
             /\ out' = Called("data_size", nr_bits)
             /\ pc' = pc
          \/ /\ nr_bits = 0
             /\ cr2' = cr2
             /\ out' = [Called("data_size", nr_bits) EXCEPT !.res = "panic"]
             /\ pc' = "panicked"
    /\ UNCHANGED <<apb_clk, speed, mode, pins, pinmode, rcc, cr1, sr, br, log, stuck, returned>>

\* half_duplex_enable with write in place of modify.
half_duplex_enable_write ==
    /\ pc = "ready"
    /\ \E enable \in BOOLEAN :
          /\ cr1' = [Cr1Reset EXCEPT !.bidimode = Bit(enable)]
          /\ out' = Called("half_duplex_enable", Bit(enable))
    /\ UNCHANGED <<pc, apb_clk, speed, mode, pins, pinmode, rcc, cr2, sr, br, log, stuck, returned>>

\* half_duplex_enable: cr1().modify(|_, w| w.bidimode().bit(enable))
half_duplex_enable ==
    /\ pc = "ready"
    /\ \E enable \in BOOLEAN :
          /\ cr1' = [cr1 EXCEPT !.bidimode = Bit(enable)]
          /\ out' = Called("half_duplex_enable", Bit(enable))
    /\ UNCHANGED <<pc, apb_clk, speed, mode, pins, pinmode, rcc, cr2, sr, br, log, stuck, returned>>

\* half_duplex_output_enable: cr1().modify(|_, w| w.bidioe().bit(enable))
half_duplex_output_enable ==
    /\ pc = "ready"
    /\ \E enable \in BOOLEAN :
          /\ cr1' = [cr1 EXCEPT !.bidioe = Bit(enable)]
          /\ out' = Called("half_duplex_output_enable", Bit(enable))
    /\ UNCHANGED <<pc, apb_clk, speed, mode, pins, pinmode, rcc, cr2, sr, br, log, stuck, returned>>

(***************************************************************************)
(* The transfers.  A call samples the status register once and decides on  *)
(* the sample; `out` records the result and the access to the data         *)
(* register the call made.                                                 *)
(***************************************************************************)
SendBytes == {0, 90, 255}

Failed(op, arg, e) == [Idle EXCEPT !.op = op, !.arg = arg, !.res = e]

\* read with the mode-fault test ahead of the overrun test.
ReadOutcome_ModeFaultFirst(s) ==
    IF s.modf = 1 THEN Failed("read", -1, "ModeFault")
    ELSE IF s.ovr = 1 THEN Failed("read", -1, "Overrun")
    ELSE IF s.crcerr = 1 THEN Failed("read", -1, "Crc")
    ELSE IF s.rxne = 1
        THEN [op |-> "read", arg |-> -1, res |-> "Ok", val |-> "byte 0 of the dr() handle",
              acc |-> NoAccess]
    ELSE Failed("read", -1, "WouldBlock")

\* FullDuplex::read.  On the RXNE arm the volatile read is given
\* `&self.spi.dr() as *const _ as *const u8`: the address of the temporary that
\* holds what dr() returned, the handle of the register.  The byte returned is the
\* first byte of that handle; the data register itself is not accessed.
ReadOutcome(s) ==
    IF s.ovr = 1 THEN Failed("read", -1, "Overrun")
    ELSE IF s.modf = 1 THEN Failed("read", -1, "ModeFault")
    ELSE IF s.crcerr = 1 THEN Failed("read", -1, "Crc")
    ELSE IF s.rxne = 1
        THEN [op |-> "read", arg |-> -1, res |-> "Ok", val |-> "byte 0 of the dr() handle",
              acc |-> NoAccess]
    ELSE Failed("read", -1, "WouldBlock")

\* send that reads the data register on overrun, to start clearing the flag.
SendOutcome_ClearsOverrun(s, byte) ==
    IF s.ovr = 1
        THEN [Failed("send", byte, "Overrun") EXCEPT
                 !.acc = [kind |-> "read", width |-> "register", bits |-> -1]]
    ELSE IF s.modf = 1 THEN Failed("send", byte, "ModeFault")
    ELSE IF s.crcerr = 1 THEN Failed("send", byte, "Crc")
    ELSE IF s.txe = 1
        THEN [op |-> "send", arg |-> byte, res |-> "Ok", val |-> "none",
              acc |-> [kind |-> "write", width |-> "register", bits |-> byte]]
    ELSE Failed("send", byte, "WouldBlock")

\* FullDuplex::send.  On the TXE arm dr().write(|w| w.bits(byte as _)) stores the
\* whole register: the byte zero-extended to the register's width.
SendOutcome(s, byte) ==
    IF s.ovr = 1 THEN Failed("send", byte, "Overrun")
    ELSE IF s.modf = 1 THEN Failed("send", byte, "ModeFault")
    ELSE IF s.crcerr = 1 THEN Failed("send", byte, "Crc")
    ELSE IF s.txe = 1
        THEN [op |-> "send", arg |-> byte, res |-> "Ok", val |-> "none",
              acc |-> [kind |-> "write", width |-> "register", bits |-> byte]]
    ELSE Failed("send", byte, "WouldBlock")

\* Bookkeeping of repeated errors: no code of the driver, which keeps nothing.
StuckAfter(o, before) ==
    IF o.res \in Errors THEN [err |-> o.res, again |-> before.err = o.res] ELSE NotStuck

read ==
    /\ pc = "ready"
    /\ out' = ReadOutcome(sr)
    /\ stuck' = StuckAfter(out', stuck)
    /\ UNCHANGED <<pc, apb_clk, speed, mode, pins, pinmode, rcc, cr1, cr2, sr, br, log, returned>>

send ==
    /\ pc = "ready"
    /\ \E byte \in SendBytes : out' = SendOutcome(sr, byte)
    /\ stuck' = StuckAfter(out', stuck)
    /\ UNCHANGED <<pc, apb_clk, speed, mode, pins, pinmode, rcc, cr1, cr2, sr, br, log, returned>>

FlagOf(e) ==
    CASE e = "Overrun" -> "ovr"
      [] e = "ModeFault" -> "modf"
      [] e = "Crc" -> "crcerr"

\* The peripheral sets or clears one status flag between two calls of the driver.
hw_flag ==
    /\ pc = "ready"
    /\ \E f \in Flags : sr' = [sr EXCEPT ![f] = 1 - sr[f]]
    /\ out' = Idle
    /\ stuck' = IF stuck.err # "none" /\ sr'[FlagOf(stuck.err)] = 0 THEN NotStuck ELSE stuck
    /\ UNCHANGED <<pc, apb_clk, speed, mode, pins, pinmode, rcc, cr1, cr2, br, log, returned>>

(***************************************************************************)
(* release: (self.spi, self.pins.release())                                *)
(***************************************************************************)
PinsRelease(pm, t) == PinRelease(PinRelease(PinRelease(pm, t.sck), t.miso), t.mosi)

release ==
    /\ pc = "ready"
    /\ pinmode' = PinsRelease(pinmode, pins)
    /\ returned' = [spi |-> "SPI1", sck |-> pins.sck, miso |-> pins.miso, mosi |-> pins.mosi]
    /\ out' = Called("release", -1)
    /\ pc' = "released"
    /\ UNCHANGED <<apb_clk, speed, mode, pins, rcc, cr1, cr2, sr, br, log, stuck>>

(***************************************************************************)
(* Specifications.                                                         *)
(***************************************************************************)
\* The life of one driver on the example pins.
Init == InitWith(MainClocks, Modes, {ExamplePins})

Next ==
    \/ spi1
    \/ data_size
    \/ half_duplex_enable
    \/ half_duplex_output_enable
    \/ read
    \/ send
    \/ hw_flag
    \/ release

Spec == Init /\ [][Next]_vars

\* Construction and release over every pin tuple the capability table accepts.
InitLife == InitWith(LifeClocks, Modes, PinTuples)

NextLife == spi1 \/ release

SpecLife == InitLife /\ [][NextLife]_vars

(***************************************************************************)
(* Properties.                                                             *)
(***************************************************************************)
Ratio == apb_clk \div speed

Divisor(code) == 2 ^ (code + 1)

NoErrorFlag == sr.ovr = 0 /\ sr.modf = 0 /\ sr.crcerr = 0

Transfer == {"read", "send"}

\* C1: for every bus clock and requested rate with floor(f_bus / f_req) >= 1, the
\* divisor 2^(br+1) the constructor selects is the smallest power of two in
\* {2, 4, .., 256} that is not less than the ratio, and the SCK frequency
\* f_bus / 2^(br+1) does not exceed f_req.
C1_SmallestPowerOfTwoAtLeastRatio ==
    (br # -1 /\ Ratio >= 1) =>
        /\ Divisor(br) >= Ratio
        /\ \A k \in 1..8 : 2 ^ k >= Ratio => Divisor(br) <= 2 ^ k
        /\ apb_clk <= speed * Divisor(br)

\* The documented breakpoint table: the lowest ratio of each prescaler code.
TableLow == <<1, 3, 6, 12, 24, 48, 96, 192>>

TableCode(r) == Cardinality({ i \in DOMAIN TableLow : TableLow[i] <= r }) - 1

\* C2: for every ratio r = floor(f_bus / f_req) >= 1 the prescaler code the
\* constructor selects, and writes to CR1.BR, is the one of the documented table
\* ([1,2] -> 0, [3,5] -> 1, [6,11] -> 2, [12,23] -> 3, [24,47] -> 4, [48,95] -> 5,
\* [96,191] -> 6, 192 and above -> 7); 48 MHz over 1 MHz gives 0b101.
C2_BreakpointTable ==
    /\ (br # -1 /\ Ratio >= 1) => br = TableCode(Ratio)
    /\ pc = "ready" => cr1.br = TableCode(Ratio)
    /\ (pc = "ready" /\ apb_clk = 48000000 /\ speed = 1000000) => cr1.br = 5

C2_Witness ==
    /\ pc = "ready"
    /\ apb_clk = 48000000
    /\ speed = 1000000
    /\ Ratio = 48
    /\ cr1.br = 5

\* C3: read() and send(byte) decode the status flags with the priority
\* Overrun > ModeFault > Crc > data-ready: Overrun whenever OVR is set, ModeFault
\* only when OVR is clear and MODF set, Crc only when OVR and MODF are clear and
\* CRCERR set, and Ok only when all three error flags are clear.
C3_ErrorPriority ==
    (pc = "ready" /\ out.op \in Transfer) =>
        /\ sr.ovr = 1 => out.res = "Overrun"
        /\ out.res = "Overrun" => sr.ovr = 1
        /\ out.res = "ModeFault" <=> (sr.ovr = 0 /\ sr.modf = 1)
        /\ out.res = "Crc" <=> (sr.ovr = 0 /\ sr.modf = 0 /\ sr.crcerr = 1)
        /\ out.res = "Ok" => NoErrorFlag
        /\ out.res \in Errors \cup {"Ok", "WouldBlock"}

C3_Witness ==
    /\ pc = "ready"
    /\ out.op = "read"
    /\ sr.ovr = 1
    /\ sr.modf = 1
    /\ out.res = "Overrun"

\* C4: read() with RXNE clear and no error flag set returns WouldBlock and does not
\* access the data register; read() accesses the data register, with exactly one
\* byte-wide read, on the path that returns Ok and on no other path.
C4_ReadTouchesDrOnlyOnOk ==
    (pc = "ready" /\ out.op = "read") =>
        /\ (sr.rxne = 0 /\ NoErrorFlag) => (out.res = "WouldBlock" /\ out.acc = NoAccess)
        /\ out.res = "Ok" <=> (sr.rxne = 1 /\ NoErrorFlag)
        /\ out.res = "Ok" => out.acc = [kind |-> "read", width |-> "byte", bits |-> -1]
        /\ out.res # "Ok" => out.acc = NoAccess

\* C5: send(byte) with TXE set and no error flag set returns Ok and writes the data
\* register byte-wide: the low 8 bits become byte and the high bits of the wider
\* hardware word are not written; with TXE clear and no error flag set it returns
\* WouldBlock and does not write the data register.
C5_SendWritesOneByte ==
    (pc = "ready" /\ out.op = "send") =>
        /\ (sr.txe = 1 /\ NoErrorFlag) =>
              /\ out.res = "Ok"
              /\ out.acc.kind = "write"
              /\ out.acc.bits % 256 = out.arg
              /\ out.acc.width = "byte"
        /\ (sr.txe = 0 /\ NoErrorFlag) => (out.res = "WouldBlock" /\ out.acc = NoAccess)

\* The documented order of construction: the effects a pin tuple calls for.
DocumentedOrder(t) ==
    <<"rcc.enable", "rcc.reset", "cr2.write", "cr2.write">>
        \o (IF t.sck = NoSck THEN << >> ELSE <<"sck.setup">>)
        \o (IF t.miso = NoMiso THEN << >> ELSE <<"miso.setup">>)
        \o (IF t.mosi = NoMosi THEN << >> ELSE <<"mosi.setup">>)
        \o <<"cr1.write">>

IsPrefix(a, b) == Len(a) <= Len(b) /\ SubSeq(b, 1, Len(a)) = a

\* Every bound pin routes the alternate function the capability table gives it.
PinsActive ==
    /\ pins.sck # NoSck => pinmode[pins.sck] = AfOf(SckTable, pins.sck)
    /\ pins.miso # NoMiso => pinmode[pins.miso] = AfOf(MisoTable, pins.miso)
    /\ pins.mosi # NoMosi => pinmode[pins.mosi] = AfOf(MosiTable, pins.mosi)

Constructing == pc \notin {"start", "released", "panicked"}

\* C6: construction performs its hardware effects in the documented order: clock
\* enable, reset, the CR2 writes (SSOE cleared; FRXTH set, DS = 0b111), activation
\* of every bound pin (SCK, MISO, MOSI; fillers do nothing), then the CR1 write.
\* No SPI register is written before the clock is enabled and the peripheral
\* reset, and SPE is not set before every bound pin is active and CR2 programmed.
C6_ConstructionOrder ==
    /\ IsPrefix(log, DocumentedOrder(pins))
    /\ pc = "ready" => log = DocumentedOrder(pins)
    /\ (\E i \in DOMAIN log : log[i] \in {"cr1.write", "cr2.write"}) => (rcc.en /\ rcc.rst)
    /\ (\E i \in DOMAIN log : log[i] \in {"sck.setup", "miso.setup", "mosi.setup"}) =>
          cr2 = [ds |-> 7, ssoe |-> 0, frxth |-> 1]
    /\ (Constructing /\ rcc.rst /\ cr1.spe = 1) =>
          /\ pc = "ready"
          /\ PinsActive
          /\ cr2.ssoe = 0 /\ cr2.frxth = 1 /\ cr2.ds = 7

C6_Witness ==
    /\ pc = "ready"
    /\ pins = [sck |-> "PB6", miso |-> NoMiso, mosi |-> "PA7"]
    /\ log = <<"rcc.enable", "rcc.reset", "cr2.write", "cr2.write", "sck.setup", "mosi.setup",
               "cr1.write">>
    /\ pinmode["PB6"] = "AF10"
    /\ pinmode["PA7"] = "AF0"
    /\ cr1.spe = 1

\* C7: release() hands back the peripheral and the pins the driver was built
\* with, every real pin switched to analog and every filler as it was, and it
\* changes no SPI register and no clock gate: the peripheral stays enabled, SPE set.
C7_ReleaseReturnsResources ==
    [][ pc' = "released" =>
          /\ returned' = [spi |-> "SPI1", sck |-> pins.sck, miso |-> pins.miso,
                          mosi |-> pins.mosi]
          /\ \A p \in PhysPins : pinmode'[p] = "analog"
          /\ cr1' = cr1 /\ cr2' = cr2 /\ sr' = sr /\ rcc' = rcc
          /\ rcc'.en /\ cr1'.spe = 1 ]_vars

C7_Witness ==
    /\ pc = "released"
    /\ returned = [spi |-> "SPI1", sck |-> "PA5", miso |-> "PA6", mosi |-> "PA7"]
    /\ pinmode["PA5"] = "analog" /\ pinmode["PA6"] = "analog" /\ pinmode["PA7"] = "analog"
    /\ cr1.spe = 1
    /\ rcc.en

\* What the constructor fixes in CR1 and CR2 for mode m and prescaler code b.
ControlFixed(m, b) ==
    /\ cr1.cpha = Bit(m.phase = "CaptureOnSecondTransition")
    /\ cr1.cpol = Bit(m.polarity = "IdleHigh")
    /\ cr1.br = b
    /\ cr1.mstr = 1 /\ cr1.ssm = 1 /\ cr1.ssi = 1
    /\ cr1.lsbfirst = 0 /\ cr1.rxonly = 0
    /\ cr1.spe = 1
    /\ cr2.ssoe = 0 /\ cr2.frxth = 1

\* C8: after construction with mode M and prescaler code br, and after any
\* sequence of data_size, half_duplex_enable, half_duplex_output_enable, read and
\* send, CR1 keeps CPHA and CPOL of M, BR = br, MSTR = SSM = SSI = 1, LSBFIRST =
\* RXONLY = 0, SPE = 1 and CR2 keeps SSOE = 0, FRXTH = 1: data_size(n), n in 1..16,
\* changes only CR2.DS (to n-1), half_duplex_enable(b) only CR1.BIDIMODE,
\* half_duplex_output_enable(b) only CR1.BIDIOE, read and send no control register.
C8_ControlRegistersKept ==
    [][ pc' = "ready" =>
          /\ ControlFixed(mode, br)'
          /\ br' \in 0..7
          /\ (out'.op = "data_size" /\ out'.arg \in 1..16) =>
                (cr2' = [cr2 EXCEPT !.ds = out'.arg - 1] /\ cr1' = cr1)
          /\ out'.op = "half_duplex_enable" =>
                (cr1' = [cr1 EXCEPT !.bidimode = out'.arg] /\ cr2' = cr2)
          /\ out'.op = "half_duplex_output_enable" =>
                (cr1' = [cr1 EXCEPT !.bidioe = out'.arg] /\ cr2' = cr2)
          /\ out'.op \in Transfer => (cr1' = cr1 /\ cr2' = cr2)
          /\ mode' = mode ]_vars

C8_Witness ==
    /\ pc = "ready"
    /\ mode = MODE_3
    /\ out.op = "send"
    /\ cr2.ds = 15
    /\ cr1.bidimode = 1
    /\ cr1.bidioe = 1
    /\ ControlFixed(MODE_3, 5)

Rank(e) ==
    CASE e = "Overrun" -> 3
      [] e = "ModeFault" -> 2
      [] e = "Crc" -> 1

\* A transfer that returns an error accesses no data register and writes nothing.
ErrorTouchesNothing ==
    (out'.op \in Transfer /\ out'.res \in Errors) =>
        /\ out'.acc = NoAccess
        /\ cr1' = cr1 /\ cr2' = cr2 /\ sr' = sr

\* C9 as stated: a read() or send() that returns Overrun, ModeFault or Crc accesses
\* no data register and writes no register, and while the flag behind the error
\* stays set every later read() and send() returns that same error again.
C9_SameErrorAgain ==
    [][ /\ ErrorTouchesNothing
        /\ (pc = "ready" /\ stuck.err # "none" /\ out'.op \in Transfer) =>
              out'.res = stuck.err ]_vars

\* C9, amended: a read() or send() that returns Overrun, ModeFault or Crc accesses
\* no data register and writes no register, and while the flag behind the error
\* stays set every later read() and send() returns an error again and transfers
\* no byte: the same error unless a flag of higher priority has been set since,
\* and then the error of the highest priority among the flags set.
C9_ErrorPersists ==
    [][ /\ ErrorTouchesNothing
        /\ (pc = "ready" /\ stuck.err # "none" /\ out'.op \in Transfer) =>
              /\ out'.res \in Errors
              /\ Rank(out'.res) >= Rank(stuck.err)
              /\ sr[FlagOf(out'.res)] = 1
              /\ \A e \in Errors : Rank(e) > Rank(out'.res) => sr[FlagOf(e)] = 0
              /\ (\A e \in Errors : Rank(e) > Rank(stuck.err) => sr[FlagOf(e)] = 0) =>
                    out'.res = stuck.err ]_vars

C9_Witness ==
    /\ pc = "ready"
    /\ stuck = [err |-> "Crc", again |-> TRUE]
    /\ sr.crcerr = 1
    /\ out.op = "send"
    /\ out.res = "Crc"
    /\ out.acc = NoAccess

\* C10: when the requested rate exceeds the bus clock (ratio 0) construction
\* returns no driver: it panics after the clock enable, the reset and the first
\* CR2 write, before any pin is activated and before CR1 is written, leaving the
\* peripheral clocked, SPE = 0, all pins analog.
C10_RatioZeroPanics ==
    Ratio = 0 =>
        /\ pc \in {"start", "enabled", "reset", "cr2_ssoe", "panicked"}
        /\ pc = "panicked" =>
              /\ log = <<"rcc.enable", "rcc.reset", "cr2.write">>
              /\ rcc.en /\ rcc.rst
              /\ cr2 = [ds |-> 7, ssoe |-> 0, frxth |-> 0]
              /\ cr1 = Cr1Reset
              /\ cr1.spe = 0
              /\ pinmode = AllAnalog
              /\ returned = NothingReturned

C10_Witness ==
    /\ pc = "panicked"
    /\ apb_clk = 1000000
    /\ speed = 48000000
    /\ rcc.en
    /\ cr1.spe = 0
    /\ pinmode = AllAnalog

====
